---- MODULE Spec2Model ----
(***************************************************************************)
(* InfinityPool (src/infinity_pool.cpp): a weighted multi-asset pool.      *)
(*                                                                         *)
(* The pool's fields are C++ doubles.  They are modelled as floating-point *)
(* numbers with a Precision-digit decimal significand, rounded to nearest  *)
(* (ties to even) after every operation, with the two infinities and NaN   *)
(* and their IEEE-754 arithmetic.  The exponent is not limited: within     *)
(* MaxSteps operations no value comes near the range limit of a double.    *)
(* Zero carries no sign.                                                   *)
(***************************************************************************)
EXTENDS Integers, Sequences, FiniteSets, TLC

\* Significant decimal digits of the model's double.
Precision == 4

\* Number of pool operations in a run.
MaxSteps == 3

----------------------------------------------------------------------------
\* double: values and rounding

RECURSIVE Pow10(_)
Pow10(n) == IF n = 0 THEN 1 ELSE 10 * Pow10(n - 1)

IAbs(i) == IF i < 0 THEN -i ELSE i
ISgn(i) == IF i < 0 THEN -1 ELSE IF i > 0 THEN 1 ELSE 0

Lo == Pow10(Precision - 1)
Hi == Pow10(Precision)

Fin(m, e) == [k |-> "fin", m |-> m, e |-> e]
Zero == Fin(0, 0)
PInf == [k |-> "inf", m |-> 1, e |-> 0]
NInf == [k |-> "inf", m |-> -1, e |-> 0]
NaN  == [k |-> "nan", m |-> 0, e |-> 0]

\* The double nearest to m * 10^e; sticky says that a nonzero part below the
\* last digit of m was already cut off.
RECURSIVE Round(_, _, _)
Round(m, e, sticky) ==
    LET a == IAbs(m) IN
    IF a = 0 THEN Zero
    ELSE IF a < Lo THEN Round(m * 10, e - 1, sticky)
    ELSE IF a < Hi THEN Fin(m, e)
    ELSE IF a >= 10 * Hi THEN Round(ISgn(m) * (a \div 10), e + 1, sticky \/ (a % 10 # 0))
    ELSE LET q  == a \div 10
             d  == a % 10
             up == d > 5 \/ (d = 5 /\ (sticky \/ q % 2 = 1))
             r  == IF up THEN q + 1 ELSE q
         IN  IF r = Hi THEN Fin(ISgn(m) * Lo, e + 2) ELSE Fin(ISgn(m) * r, e + 1)

\* The double of a decimal literal m * 10^e.
Lit(m, e) == Round(m, e, FALSE)
One == Lit(1, 0)
Half == Lit(5, -1)

IsNaN(x) == x.k = "nan"
IsFin(x) == x.k = "fin"
SignOf(x) == ISgn(x.m)

Neg(x) == [x EXCEPT !.m = -x.m]
FAbs(x) == [x EXCEPT !.m = IAbs(x.m)]

Add(x, y) ==
    IF IsNaN(x) \/ IsNaN(y) THEN NaN
    ELSE IF x.k = "inf" THEN (IF y.k = "inf" /\ y.m # x.m THEN NaN ELSE x)
    ELSE IF y.k = "inf" THEN y
    ELSE IF x.m = 0 THEN y
    ELSE IF y.m = 0 THEN x
    ELSE LET hi == IF x.e >= y.e THEN x ELSE y
             lo == IF x.e >= y.e THEN y ELSE x
             d  == hi.e - lo.e
         IN  IF d > Precision + 1 THEN hi
             ELSE Round(hi.m * Pow10(d) + lo.m, lo.e, FALSE)

Sub(x, y) == Add(x, Neg(y))

Mul(x, y) ==
    IF IsNaN(x) \/ IsNaN(y) THEN NaN
    ELSE IF x.k = "inf" \/ y.k = "inf"
         THEN (IF SignOf(x) * SignOf(y) = 0 THEN NaN
               ELSE IF SignOf(x) * SignOf(y) > 0 THEN PInf ELSE NInf)
    ELSE Round(x.m * y.m, x.e + y.e, FALSE)

Div(x, y) ==
    IF IsNaN(x) \/ IsNaN(y) THEN NaN
    ELSE IF x.k = "inf" THEN (IF y.k = "inf" THEN NaN
                              ELSE IF SignOf(x) * SignOf(y) < 0 THEN NInf ELSE PInf)
    ELSE IF y.k = "inf" THEN Zero
    ELSE IF y.m = 0 THEN (IF x.m = 0 THEN NaN ELSE IF x.m > 0 THEN PInf ELSE NInf)
    ELSE LET n == IAbs(x.m) * Pow10(Precision + 1)
             q == n \div IAbs(y.m)
             r == n % IAbs(y.m)
         IN  Round(ISgn(x.m) * ISgn(y.m) * q, x.e - y.e - (Precision + 1), r # 0)

\* Comparisons; every comparison with NaN is false.
Lt(x, y) == /\ ~IsNaN(x) /\ ~IsNaN(y)
            /\ x # y
            /\ SignOf(Sub(x, y)) < 0
Le(x, y) == ~IsNaN(x) /\ ~IsNaN(y) /\ (x = y \/ Lt(x, y))
Gt(x, y) == Lt(y, x)


\* The integer part of the square root of n, searched between lo and hi.
RECURSIVE ISqrt(_, _, _)
ISqrt(n, lo, hi) ==
    IF lo >= hi THEN lo
    ELSE LET mid == (lo + hi + 1) \div 2
         IN  IF mid * mid <= n THEN ISqrt(n, mid, hi) ELSE ISqrt(n, lo, mid - 1)

\* std::sqrt of a finite x > 0, correctly rounded.
Sqrt(x) ==
    LET j == IF (x.e - (Precision - 1)) % 2 = 0 THEN Precision - 1 ELSE Precision
        n == x.m * Pow10(j)
        r == ISqrt(n, Lo, Hi - 1)
    IN  Round(IF n - r * r > r THEN r + 1 ELSE r, (x.e - j) \div 2, FALSE)

\* Whether a finite x is an integer, and that integer (for -Precision <= x.e).
IsInt(x) == IsFin(x) /\ (x.e >= 0 \/ (-x.e <= Precision /\ x.m % Pow10(-x.e) = 0))
IntOf(x) == IF x.e >= 0 THEN x.m * Pow10(x.e) ELSE x.m \div Pow10(-x.e)
IsOddInt(x) == IsInt(x) /\ x.e <= 0 /\ IntOf(x) % 2 = 1

\* x^n for an integer n >= 0, by n multiplications.
RECURSIVE PowNat(_, _)
PowNat(x, n) == IF n = 0 THEN One ELSE Mul(x, PowNat(x, n - 1))

\* std::pow(x, y).  The exponents the pool computes are weights, 1 / weight and
\* weight / weight; of the finite ones that are no integers the definition covers
\* 0.5, the weight of either token of a two-token pool funded in equal amounts.
Pow(x, y) ==
    IF y = Zero \/ x = One THEN One
    ELSE IF IsNaN(x) \/ IsNaN(y) THEN NaN
    ELSE IF y.k = "inf"
         THEN (IF FAbs(x) = One THEN One
               ELSE IF Lt(FAbs(x), One) = (y = PInf) THEN Zero ELSE PInf)
    ELSE IF x.k = "inf"
         THEN (IF SignOf(y) < 0 THEN Zero
               ELSE IF x = NInf /\ IsOddInt(y) THEN NInf ELSE PInf)
    ELSE IF x = Zero THEN (IF SignOf(y) > 0 THEN Zero ELSE PInf)
    ELSE CASE IsInt(y) /\ y.e <= 0 /\ SignOf(y) > 0 -> PowNat(x, IntOf(y))
           [] IsInt(y) /\ y.e <= 0 /\ SignOf(y) < 0 -> Div(One, PowNat(x, -IntOf(y)))
           [] ~IsInt(y) /\ SignOf(x) < 0 -> NaN
           [] y = Half /\ SignOf(x) > 0 -> Sqrt(x)

----------------------------------------------------------------------------
\* std::unordered_map<std::string, double>: a function on its key set

EmptyMap == [t \in {} |-> Zero]

\* map[t] = v (operator[] and assignment): t is inserted when it is absent.
Put(map, t, v) == [u \in DOMAIN map \cup {t} |-> IF u = t THEN v ELSE map[u]]

\* What reading map[t] leaves behind: operator[] inserts 0.0 for an absent key.
Touch(map, t) == IF t \in DOMAIN map THEN map ELSE Put(map, t, Zero)

\* The orders in which an unordered_map with key set S may be iterated.
Orders(S) == {p \in [1..Cardinality(S) -> S] : \A i, j \in 1..Cardinality(S) : p[i] = p[j] => i = j}

\* std::accumulate(map.begin(), map.end(), 0.0, sum + second) iterating in order p.
RECURSIVE SumTo(_, _, _)
SumTo(map, p, n) == IF n = 0 THEN Zero ELSE Add(SumTo(map, p, n - 1), map[p[n]])
Accumulate(map, p) == SumTo(map, p, Cardinality(DOMAIN map))


----------------------------------------------------------------------------
\* The pool

SUPPLY == Lit(1, 15)
FIRST == Lit(1, 8)

\* The tokens the pool is constructed with, and a name that is none of them.
Tokens == <<"X", "Y">>
Names == {"X", "Y", "Q"}

\* The tolerance every caller passes to check_deposit_ratio.
Tolerance == Lit(1, -6)

\* weights, balances, shares_issued and invariant are the pool's fields.  The others
\* record the run: inited, whether initialize has returned; minted, the balances a
\* deposit of a multiple of the balances found and the shares it returned, while
\* it is the latest call; last, the latest call, how it ended and the pool before
\* it; steps, the number of calls made.
VARIABLES weights, balances, shares_issued, invariant, inited, minted, last, steps

vars == <<weights, balances, shares_issued, invariant, inited, minted, last, steps>>

\* The pool's fields as one value.
Pool == [weights |-> weights, balances |-> balances,
         shares_issued |-> shares_issued, invariant |-> invariant]

\* How a call ends: with the fields it leaves, by a return or by an exception.
Returned(P, ret, retmap) == [pool |-> P, outcome |-> "ok", ret |-> ret, retmap |-> retmap]
Thrown(P, what) == [pool |-> P, outcome |-> what, ret |-> Zero, retmap |-> EmptyMap]

\* The first i tokens are all keys of map.
HasFirst(map, i) == \A j \in 1..i : Tokens[j] \in DOMAIN map
\* How many tokens the loop over tokens handles before map.at(token) throws.
Present(map) == CHOOSE i \in 0..Len(Tokens) :
                    HasFirst(map, i) /\ (i = Len(Tokens) \/ Tokens[i + 1] \notin DOMAIN map)

\* initialize's loop over the first n tokens.
RECURSIVE InitWeights(_, _, _, _)
InitWeights(w, amount_in, sum, n) ==
    IF n = 0 THEN w
    ELSE Put(InitWeights(w, amount_in, sum, n - 1), Tokens[n], Div(amount_in[Tokens[n]], sum))

\* amount_in has as many entries as there are tokens here, and the sum of two
\* doubles does not depend on their order.
initialize(P, amount_in) ==
    IF Cardinality(DOMAIN amount_in) # Len(Tokens) THEN Thrown(P, "invalid_argument")
    ELSE IF \E t \in DOMAIN amount_in : Le(amount_in[t], Zero) THEN Thrown(P, "invalid_argument")
    ELSE LET sum == Accumulate(amount_in, CHOOSE p \in Orders(DOMAIN amount_in) : TRUE)
             n   == Present(amount_in)
             P1  == [P EXCEPT !.balances = amount_in,
                              !.weights = InitWeights(P.weights, amount_in, sum, n)]
         IN  IF n < Len(Tokens) THEN Thrown(P1, "out_of_range")
             ELSE Returned([P1 EXCEPT !.shares_issued = FIRST], Zero, EmptyMap)

\* set_invariant's loop from token i on; balances[token] and weights[token] insert
\* the token when it is absent.
RECURSIVE InvariantLoop(_, _)
InvariantLoop(P, i) ==
    IF i > Len(Tokens) THEN P
    ELSE LET t == Tokens[i]
             b == Touch(P.balances, t)
             w == Touch(P.weights, t)
         IN  InvariantLoop([P EXCEPT !.balances = b, !.weights = w,
                                     !.invariant = Mul(P.invariant, Pow(b[t], w[t]))], i + 1)

set_invariant(P) == InvariantLoop([P EXCEPT !.invariant = One], 1)

\* The ratio vector of map, its entries taken in order p.
RatioVec(map, p) ==
    LET sum == Accumulate(map, p)
    IN  [i \in 1..Cardinality(DOMAIN map) |-> Div(map[p[i]], sum)]

\* The ratio vectors of map in the orders in which it may be iterated.
RatioVecs(map) == {RatioVec(map, p) : p \in Orders(DOMAIN map)}

\* The answers check_deposit_ratio can give.  The two vectors are compared position
\* by position in the iteration orders of the two maps, which the standard leaves
\* open; with fewer entries in amount_in than in balances std::equal reads past the
\* end of deposit_ratio.
check_deposit_ratio(P, amount_in, tolerance) ==
    IF Cardinality(DOMAIN amount_in) < Cardinality(DOMAIN P.balances) THEN BOOLEAN
    ELSE {\A i \in 1..Cardinality(DOMAIN P.balances) :
              Lt(FAbs(Sub(existing_ratio[i], deposit_ratio[i])), tolerance)
          : existing_ratio \in RatioVecs(P.balances), deposit_ratio \in RatioVecs(amount_in)}

\* for (entry : amount_in) balances[entry.first] += entry.second
AddEntries(b, amount_in) ==
    [t \in DOMAIN b \cup DOMAIN amount_in |->
        IF t \in DOMAIN amount_in THEN Add(Touch(b, t)[t], amount_in[t]) ELSE b[t]]

\* The shares a proportional deposit returns.
SharesFor(P, amount_in) == Div(Mul(amount_in[Tokens[1]], SUPPLY), P.balances[Tokens[1]])

\* ratio_ok is the answer of check_deposit_ratio.
deposit_all(P, amount_in, ratio_ok) ==
    IF \E t \in DOMAIN amount_in : Le(amount_in[t], Zero) THEN Thrown(P, "invalid_argument")
    ELSE IF ~ratio_ok THEN Thrown(P, "invalid_argument")
    ELSE LET P1 == [P EXCEPT !.balances = AddEntries(P.balances, amount_in)]
             P2 == IF P.weights = EmptyMap THEN P1 ELSE set_invariant(P1)
         IN  IF Tokens[1] \notin DOMAIN amount_in THEN Thrown(P2, "out_of_range")
             ELSE Returned(P2, SharesFor(P2, amount_in), EmptyMap)

deposit_one(P, amount_in) ==
    LET nonzero == {t \in DOMAIN amount_in : amount_in[t] # Zero}
        t_key   == CHOOSE t \in nonzero : TRUE
    IN  IF P.weights = EmptyMap THEN Thrown(P, "invalid_argument")
        ELSE IF Cardinality(nonzero) # 1 THEN Thrown(P, "invalid_argument")
        ELSE IF Lt(amount_in[t_key], Zero) THEN Thrown(P, "invalid_argument")
        ELSE IF t_key \notin DOMAIN P.balances THEN Thrown(P, "out_of_range")
        ELSE LET shares_to_issue == Div(Mul(amount_in[t_key], SUPPLY), P.balances[t_key])
                 P1 == [P EXCEPT !.balances[t_key] = Add(@, amount_in[t_key])]
             IN  Returned(set_invariant(P1), shares_to_issue, EmptyMap)

deposit_any(P, amount_in, ratio_ok) ==
    IF P.weights = EmptyMap THEN Thrown(P, "invalid_argument")
    ELSE IF ~ratio_ok THEN Thrown(P, "invalid_argument")
    ELSE LET P1 == set_invariant([P EXCEPT !.balances = AddEntries(P.balances, amount_in)])
         IN  IF Tokens[1] \notin DOMAIN amount_in THEN Thrown(P1, "out_of_range")
             ELSE Returned(P1, SharesFor(P1, amount_in), EmptyMap)


\* RedeemError with the redeem ratio compared with SUPPLY, the maximum supply of
\* shares, in place of the shares issued.
RedeemErrorAgainstSupply(P, redeem) ==
    IF Le(redeem, Zero) THEN "invalid_argument"
    ELSE IF Gt(Div(redeem, SUPPLY), SUPPLY) THEN "invalid_argument"
    ELSE ""

\* The redeem checks of the three withdrawals: "" when redeem passes.
RedeemError(P, redeem) ==
    IF Le(redeem, Zero) THEN "invalid_argument"
    ELSE IF Gt(Div(redeem, SUPPLY), P.shares_issued) THEN "invalid_argument"
    ELSE ""

\* balance * (1 - pow(shares_issued - redeem_ratio, 1 / weight))
RedeemOut(balance, weight, shares, redeem_ratio) ==
    Mul(balance, Sub(One, Pow(Sub(shares, redeem_ratio), Div(One, weight))))

\* withdraw_all's loop from token i on; R.out is amount_out.
RECURSIVE WithdrawAllLoop(_, _, _)
WithdrawAllLoop(R, redeem_ratio, i) ==
    IF i > Len(Tokens) THEN R
    ELSE LET t   == Tokens[i]
             b   == Touch(R.pool.balances, t)
             w   == Touch(R.pool.weights, t)
             out == RedeemOut(b[t], w[t], R.pool.shares_issued, redeem_ratio)
         IN  WithdrawAllLoop([pool |-> [R.pool EXCEPT !.balances = Put(b, t, Sub(b[t], out)),
                                                     !.weights = w],
                              out |-> Put(R.out, t, out)], redeem_ratio, i + 1)

withdraw_all(P, redeem) ==
    IF RedeemError(P, redeem) # "" THEN Thrown(P, RedeemError(P, redeem))
    ELSE LET redeem_ratio == Div(redeem, SUPPLY)
             R  == WithdrawAllLoop([pool |-> P, out |-> EmptyMap], redeem_ratio, 1)
             P1 == [R.pool EXCEPT !.shares_issued = Sub(@, redeem_ratio)]
         IN  Returned(set_invariant(P1), Zero, R.out)

withdraw_one(P, token, redeem) ==
    IF P.weights = EmptyMap THEN Thrown(P, "invalid_argument")
    ELSE IF RedeemError(P, redeem) # "" THEN Thrown(P, RedeemError(P, redeem))
    ELSE LET redeem_ratio == Div(redeem, SUPPLY)
             b   == Touch(P.balances, token)
             w   == Touch(P.weights, token)
             amount_out == RedeemOut(b[token], w[token], P.shares_issued, redeem_ratio)
             P1  == [P EXCEPT !.balances = Put(b, token, Sub(b[token], amount_out)),
                              !.weights = w,
                              !.shares_issued = Sub(@, redeem_ratio)]
         IN  Returned(set_invariant(P1), amount_out, EmptyMap)

\* withdraw_any's loop over the first n tokens, those before ratios.at(token) throws.
RECURSIVE WithdrawAnyLoop(_, _, _, _)
WithdrawAnyLoop(R, ratios, redeem_ratio, n) ==
    IF n = 0 THEN R
    ELSE LET S   == WithdrawAnyLoop(R, ratios, redeem_ratio, n - 1)
             t   == Tokens[n]
             out == Mul(ratios[t], redeem_ratio)
             b   == Touch(S.pool.balances, t)
         IN  [pool |-> [S.pool EXCEPT !.balances = Put(b, t, Sub(b[t], out))],
              out |-> Put(S.out, t, out)]

withdraw_any(P, redeem, ratios, ratio_ok) ==
    IF P.weights = EmptyMap THEN Thrown(P, "invalid_argument")
    ELSE IF ~ratio_ok THEN Thrown(P, "invalid_argument")
    ELSE IF RedeemError(P, redeem) # "" THEN Thrown(P, RedeemError(P, redeem))
    ELSE LET redeem_ratio == Div(redeem, SUPPLY)
             n  == Present(ratios)
             R  == WithdrawAnyLoop([pool |-> P, out |-> EmptyMap], ratios, redeem_ratio, n)
             P1 == [R.pool EXCEPT !.shares_issued = Sub(@, redeem_ratio)]
         IN  IF n < Len(Tokens) THEN Thrown(R.pool, "out_of_range")
             ELSE Returned(set_invariant(P1), Zero, R.out)

swap(P, t_in, t_out, amount_in) ==
    IF P.weights = EmptyMap THEN Thrown(P, "invalid_argument")
    ELSE IF Le(amount_in, Zero) THEN Thrown(P, "invalid_argument")
    ELSE LET b1 == Touch(P.balances, t_in) IN
         IF Lt(b1[t_in], amount_in) THEN Thrown([P EXCEPT !.balances = b1], "invalid_argument")
         ELSE LET b2 == Touch(b1, t_out)
                  w  == Touch(Touch(P.weights, t_in), t_out)
                  amount_out == Mul(b2[t_out],
                                    Sub(One, Pow(Div(Sub(b2[t_in], amount_in), b2[t_in]),
                                                 Div(w[t_in], w[t_out]))))
                  b3 == [b2 EXCEPT ![t_in] = Sub(@, amount_in)]
                  b4 == [b3 EXCEPT ![t_out] = Add(@, amount_out)]
              IN  Returned(set_invariant([P EXCEPT !.balances = b4, !.weights = w]),
                           amount_out, EmptyMap)

\* std::accumulate over weights of weight * inputs.at(key), iterating in order p.
RECURSIVE WeightIn(_, _, _, _)
WeightIn(w, inputs, p, n) ==
    IF n = 0 THEN Zero
    ELSE Add(WeightIn(w, inputs, p, n - 1), Mul(w[p[n]], inputs[p[n]]))

\* equalize's loop from token i on; it ends early when inputs.at(token) throws.
RECURSIVE EqualizeLoop(_, _, _, _)
EqualizeLoop(R, inputs, total_weight_in, i) ==
    IF i > Len(Tokens) THEN R
    ELSE LET t   == Tokens[i]
             b   == Touch(R.pool.balances, t)
             w   == Touch(R.pool.weights, t)
             out == Mul(b[t], Sub(Pow(Div(total_weight_in, w[t]), Div(One, w[t])), One))
             P1  == [R.pool EXCEPT !.balances = b, !.weights = w]
         IN  IF t \notin DOMAIN inputs
             THEN [pool |-> P1, out |-> Put(R.out, t, out), thrown |-> TRUE]
             ELSE EqualizeLoop([pool |-> [P1 EXCEPT !.balances[t] = Add(@, inputs[t])],
                                out |-> Put(R.out, t, out), thrown |-> FALSE],
                               inputs, total_weight_in, i + 1)

\* inputs_ok and ratio_ok are the answers of check_deposit_ratio for inputs and
\* ratio_out; p is the iteration order of weights.
equalize(P, inputs, inputs_ok, ratio_ok, p) ==
    IF P.weights = EmptyMap THEN Thrown(P, "invalid_argument")
    ELSE IF ~inputs_ok \/ ~ratio_ok THEN Thrown(P, "invalid_argument")
    ELSE IF ~(DOMAIN P.weights \subseteq DOMAIN inputs) THEN Thrown(P, "out_of_range")
    ELSE LET total_weight_in == WeightIn(P.weights, inputs, p, Cardinality(DOMAIN P.weights))
             R == EqualizeLoop([pool |-> P, out |-> EmptyMap, thrown |-> FALSE],
                               inputs, total_weight_in, 1)
         IN  IF R.thrown THEN Thrown(R.pool, "out_of_range")
             ELSE Returned(set_invariant(R.pool), Zero, R.out)


----------------------------------------------------------------------------
\* The arguments of the calls

Uniform(K, v) == [t \in K |-> v]
OneHot(K, h, v) == [t \in K |-> IF t = h THEN v ELSE Zero]

\* The map that is k times the balances.
Scaled(b, k) == [t \in DOMAIN b |-> Mul(k, b[t])]
Multiples == {Half, One}
ScaledMaps(b) == {Scaled(b, k) : k \in Multiples}

\* initialize is called with the same amount of every key; the weights it sets
\* are then 0.5 each.
InitMaps == {Uniform({"X", "Y"}, v) : v \in {Zero, One, Lit(100, 0)}}
            \cup {Uniform(K, Lit(100, 0)) : K \in {{"X", "Q"}, {"Q", "Y"}, {"X"}}}

\* Amounts and ratios: the balances, a map of two tokens, a map without the second
\* token, and a map with a key that is no token.
AmountMaps == ScaledMaps(balances) \cup {Uniform({"X", "Y"}, One), Uniform({"X"}, One),
                                          Uniform({"X", "Y", "Q"}, One)}

RatioMaps == {Scaled(balances, One), Uniform({"X", "Y"}, One), Uniform({"X"}, One)}

SingleMaps == {OneHot({"X", "Y"}, "X", Lit(10, 0)), OneHot({"X", "Y"}, "X", Lit(-1, 0)),
               OneHot({"Q"}, "Q", Lit(10, 0)), Uniform({"X", "Y"}, One)}

NoMint == [on |-> FALSE, balances |-> EmptyMap, shares |-> Zero]

\* Redeem amounts: not positive, below and above the shares issued, and the
\* shares the deposit just before returned.
Redeems == {Zero, Lit(1, 20), Lit(1, 24)}
           \cup (IF minted.on THEN {minted.shares} ELSE {})

SwapAmounts == {Lit(10, 0)}

----------------------------------------------------------------------------
\* The calls

NoCall == [op |-> "none", amount_in |-> EmptyMap, ratio_out |-> EmptyMap,
           t_in |-> "", t_out |-> "", x |-> Zero,
           outcome |-> "ok", ret |-> Zero, retmap |-> EmptyMap,
           pre |-> [pool |-> [weights |-> EmptyMap, balances |-> EmptyMap,
                              shares_issued |-> Zero, invariant |-> Zero],
                    inited |-> FALSE, minted |-> NoMint]]

\* InfinityPool::InfinityPool
Init ==
    /\ weights = EmptyMap
    /\ balances = EmptyMap
    /\ shares_issued = Zero
    /\ invariant = Zero
    /\ inited = FALSE
    /\ minted = NoMint
    /\ last = NoCall
    /\ steps = 0

\* One call: the pool takes the fields the call leaves; last records the call, how
\* it ended and the pool before it.
Call(op, args, res, ini, mint) ==
    /\ weights' = res.pool.weights
    /\ balances' = res.pool.balances
    /\ shares_issued' = res.pool.shares_issued
    /\ invariant' = res.pool.invariant
    /\ inited' = ini
    /\ minted' = mint
    /\ last' = [op |-> op, amount_in |-> args.amount_in, ratio_out |-> args.ratio_out,
                t_in |-> args.t_in, t_out |-> args.t_out, x |-> args.x,
                outcome |-> res.outcome, ret |-> res.ret, retmap |-> res.retmap,
                pre |-> [pool |-> Pool, inited |-> inited, minted |-> minted]]
    /\ steps' = steps + 1

NoArgs == [amount_in |-> EmptyMap, ratio_out |-> EmptyMap, t_in |-> "", t_out |-> "", x |-> Zero]

\* A deposit of a positive multiple of the balances that returned: what it found
\* and the shares it returned.
MintOf(amount_in, res) ==
    IF /\ res.outcome = "ok"
       /\ balances # EmptyMap
       /\ amount_in \in ScaledMaps(balances)
       /\ \A t \in DOMAIN balances : IsFin(balances[t]) /\ SignOf(balances[t]) > 0
    THEN [on |-> TRUE, balances |-> balances, shares |-> res.ret]
    ELSE NoMint

Initialize ==
    /\ steps < MaxSteps
    /\ \E amount_in \in InitMaps :
        \E res \in {initialize(Pool, amount_in)} :
            Call("initialize", [NoArgs EXCEPT !.amount_in = amount_in], res,
                 inited \/ res.outcome = "ok", NoMint)

DepositAll ==
    /\ steps < MaxSteps
    /\ \E amount_in \in AmountMaps :
        \E res \in {deposit_all(Pool, amount_in, ratio_ok) :
                        ratio_ok \in check_deposit_ratio(Pool, amount_in, Tolerance)} :
            Call("deposit_all", [NoArgs EXCEPT !.amount_in = amount_in], res,
                 inited, MintOf(amount_in, res))

DepositOne ==
    /\ steps < MaxSteps
    /\ \E amount_in \in SingleMaps :
        \E res \in {deposit_one(Pool, amount_in)} :
            Call("deposit_one", [NoArgs EXCEPT !.amount_in = amount_in], res, inited, NoMint)

DepositAny ==
    /\ steps < MaxSteps
    /\ \E amount_in \in AmountMaps :
        \E res \in {deposit_any(Pool, amount_in, ratio_ok) :
                        ratio_ok \in check_deposit_ratio(Pool, amount_in, Tolerance)} :
            Call("deposit_any", [NoArgs EXCEPT !.amount_in = amount_in], res,
                 inited, MintOf(amount_in, res))

WithdrawAll ==
    /\ steps < MaxSteps
    /\ \E redeem \in Redeems :
        \E res \in {withdraw_all(Pool, redeem)} :
            Call("withdraw_all", [NoArgs EXCEPT !.x = redeem], res, inited, NoMint)

WithdrawOne ==
    /\ steps < MaxSteps
    /\ \E token \in {"X", "Q"}, redeem \in Redeems :
        \E res \in {withdraw_one(Pool, token, redeem)} :
            Call("withdraw_one", [NoArgs EXCEPT !.t_out = token, !.x = redeem], res,
                 inited, NoMint)

WithdrawAny ==
    /\ steps < MaxSteps
    /\ \E redeem \in Redeems, ratios \in RatioMaps :
        \E res \in {withdraw_any(Pool, redeem, ratios, ratio_ok) :
                        ratio_ok \in check_deposit_ratio(Pool, ratios, Tolerance)} :
            Call("withdraw_any", [NoArgs EXCEPT !.amount_in = ratios, !.x = redeem], res,
                 inited, NoMint)

Swap ==
    /\ steps < MaxSteps
    /\ \E t_in \in Names, t_out \in Names, amount_in \in SwapAmounts :
        \E res \in {swap(Pool, t_in, t_out, amount_in)} :
            Call("swap", [NoArgs EXCEPT !.t_in = t_in, !.t_out = t_out, !.x = amount_in], res,
                 inited, NoMint)

Equalize ==
    /\ steps < MaxSteps
    /\ \E inputs \in RatioMaps, ratio_out \in {Scaled(balances, Half)} :
        \E res \in {equalize(Pool, inputs, inputs_ok, ratio_ok, p) :
                        inputs_ok \in check_deposit_ratio(Pool, inputs, Tolerance),
                        ratio_ok \in check_deposit_ratio(Pool, ratio_out, Tolerance),
                        p \in Orders(DOMAIN weights)} :
            Call("equalize", [NoArgs EXCEPT !.amount_in = inputs, !.ratio_out = ratio_out], res,
                 inited, NoMint)

Next ==
    \/ Initialize
    \/ DepositAll
    \/ DepositOne
    \/ DepositAny
    \/ WithdrawAll
    \/ WithdrawOne
    \/ WithdrawAny
    \/ Swap
    \/ Equalize

Spec == Init /\ [][Next]_vars


----------------------------------------------------------------------------
\* Properties

\* Equal within floating tolerance: a relative difference of at most RelTol, two
\* units in the last digit of the model's double.
RelTol == Lit(1, -3)
Near(x, y) == x = y \/ (IsFin(x) /\ IsFin(y) /\ Le(FAbs(Sub(x, y)), Mul(RelTol, FAbs(y))))

\* The invariant recomputed from the fields P.
InvariantOf(P) == set_invariant(P).invariant

TokenSet == {Tokens[i] : i \in 1..Len(Tokens)}
Deposits == {"deposit_all", "deposit_one", "deposit_any"}
Withdrawals == {"withdraw_all", "withdraw_one", "withdraw_any"}

\* The last call returned (threw).
Ok == last.op # "none" /\ last.outcome = "ok"
Failed == last.outcome # "ok"

\* The last call named tokens of the pool only, and its maps had the tokens as
\* their keys.
OverTokens ==
    /\ last.amount_in = EmptyMap \/ DOMAIN last.amount_in = TokenSet
    /\ last.ratio_out = EmptyMap \/ DOMAIN last.ratio_out = TokenSet
    /\ last.t_in \in TokenSet \cup {""}
    /\ last.t_out \in TokenSet \cup {""}

\* C1: on an initialized pool of X and Y with weights 0.5 each and balances
\* X = 100, Y = 100, swap(X, Y, 10) returns 10 and leaves X = 90 and Y = 90.
C1_SwapExample ==
    (/\ last.op = "swap" /\ Ok
     /\ last.pre.inited
     /\ last.pre.pool.weights = Uniform({"X", "Y"}, Half)
     /\ last.pre.pool.balances = Uniform({"X", "Y"}, Lit(100, 0))
     /\ last.t_in = "X" /\ last.t_out = "Y" /\ last.x = Lit(10, 0))
    => /\ Near(last.ret, Lit(10, 0))
       /\ Near(balances["X"], Lit(90, 0))
       /\ Near(balances["Y"], Lit(90, 0))

\* C2: a swap between two tokens of an initialized pool that returned leaves the
\* invariant, the product over the tokens of balance^weight, as it was (within
\* floating tolerance); the weights of the two tokens being equal, it leaves the
\* product of their two balances as it was.
C2_SwapKeepsInvariant ==
    (/\ last.op = "swap" /\ Ok
     /\ last.pre.inited
     /\ last.t_in \in TokenSet /\ last.t_out \in TokenSet /\ last.t_in # last.t_out
     /\ DOMAIN last.pre.pool.balances = TokenSet /\ DOMAIN last.pre.pool.weights = TokenSet)
    => /\ Near(InvariantOf(Pool), InvariantOf(last.pre.pool))
       /\ last.pre.pool.weights[last.t_in] = last.pre.pool.weights[last.t_out]
          => Near(Mul(balances[last.t_in], balances[last.t_out]),
                  Mul(last.pre.pool.balances[last.t_in], last.pre.pool.balances[last.t_out]))

\* C3: on an initialized pool, a deposit_all or deposit_any of a positive multiple
\* of the balances that returned shares s, followed at once by withdraw_all(s),
\* leaves every balance what it was before the deposit (within floating tolerance).
C3_DepositWithdrawInverse ==
    (/\ last.op = "withdraw_all" /\ Ok
     /\ last.pre.inited
     /\ last.pre.minted.on
     /\ last.x = last.pre.minted.shares)
    => \A t \in DOMAIN last.pre.minted.balances :
           t \in DOMAIN balances /\ Near(balances[t], last.pre.minted.balances[t])

\* C4: withdraw_all(redeem) with redeem > 0 and redeem / SUPPLY > shares_issued
\* throws invalid_argument and leaves balances, weights, shares_issued and the
\* cached invariant as they were.
C4_RedeemAboveIssuedRejected ==
    (/\ last.op = "withdraw_all"
     /\ Gt(last.x, Zero)
     /\ Gt(Div(last.x, SUPPLY), last.pre.pool.shares_issued))
    => /\ last.outcome = "invalid_argument"
       /\ Pool = last.pre.pool

\* C4's case: on an initialized pool holding balances, withdraw_all was called
\* with a redeem amount above the shares issued.
C4_Witness ==
    /\ last.op = "withdraw_all"
    /\ last.pre.inited
    /\ last.pre.pool.shares_issued = FIRST
    /\ Gt(Div(last.x, SUPPLY), last.pre.pool.shares_issued)
    /\ last.outcome = "invalid_argument"
    /\ balances # EmptyMap

\* C5: once initialize has returned, no later call changes the weights map, its
\* key set or its values.
C5_WeightsImmutable ==
    last.pre.inited => weights = last.pre.pool.weights

\* C6: shares_issued is FIRST right after initialize; on an initialized pool a
\* deposit that returned leaves shares_issued strictly greater than before, and a
\* withdrawal that returned leaves it strictly smaller.  (Stated of the calls whose
\* maps have the tokens as their keys.)
C6_SharesFollowDeposits ==
    /\ (last.op = "initialize" /\ Ok) => shares_issued = FIRST
    /\ (last.op \in Deposits /\ Ok /\ OverTokens /\ last.pre.inited)
       => Gt(shares_issued, last.pre.pool.shares_issued)
    /\ (last.op \in Withdrawals /\ Ok /\ OverTokens /\ last.pre.inited)
       => Lt(shares_issued, last.pre.pool.shares_issued)

\* C7: on an initialized pool whose balances are all at least zero, no withdrawal
\* and no swap that returned leaves a balance below zero.  (Stated of the calls that
\* name tokens of the pool only and whose maps have the tokens as their keys.)
C7_BalancesNonNegative ==
    (/\ last.op \in Withdrawals \cup {"swap"} /\ Ok /\ OverTokens
     /\ last.pre.inited
     /\ \A t \in DOMAIN last.pre.pool.balances : SignOf(last.pre.pool.balances[t]) >= 0)
    => \A t \in DOMAIN balances : SignOf(balances[t]) >= 0

\* C8: after every call of initialize, a deposit, a withdrawal, swap or equalize
\* that returned with the weights set, the cached invariant is the value
\* recomputed from the balances and weights the call left.
C8_InvariantFresh ==
    (Ok /\ weights # EmptyMap) => invariant = InvariantOf(Pool)

\* C9: a call that throws leaves balances, weights, shares_issued and the cached
\* invariant as they were.
C9_FailureChangesNothing ==
    Failed => Pool = last.pre.pool

\* C10: on a pool on which initialize has never returned, every call of
\* deposit_one, deposit_any, withdraw_one, withdraw_any, swap and equalize throws
\* invalid_argument and leaves the pool's fields as they were.  (Stated of the
\* calls that name tokens of the pool only and whose maps have the tokens as their
\* keys.)
C10_NothingBeforeInitialize ==
    (/\ ~last.pre.inited
     /\ OverTokens
     /\ last.op \in {"deposit_one", "deposit_any", "withdraw_one", "withdraw_any",
                     "swap", "equalize"})
    => /\ last.outcome = "invalid_argument"
       /\ Pool = last.pre.pool

====
